---- MODULE Spec2Model ----
(***************************************************************************)
(* chainer/mnist_lenet.ipynb: LeNet5 on MNIST, trained by a chainer        *)
(* Trainer.                                                                *)
(*                                                                         *)
(* The notebook builds two SerialIterators, the LeNet5 chain, an Adam      *)
(* optimizer, a StandardUpdater, a Trainer with seven extensions, and      *)
(* calls trainer.run().  The model follows that run step by step: one      *)
(* action per optimizer update, one per extension call, one per batch of   *)
(* an evaluation pass.  The classes the notebook instantiates              *)
(* (SerialIterator, IntervalTrigger, Trainer.run, Evaluator, LogReport,    *)
(* PrintReport) are modelled by what chainer 1.x does for the arguments    *)
(* the notebook passes.                                                    *)
(*                                                                         *)
(* Tensors are modelled by their shapes, the parameters of the model by a  *)
(* version number that every write to them increases.                      *)
(***************************************************************************)
EXTENDS Integers, Sequences, FiniteSets, TLC

\* ---------------------------------------------------------------- sizes
\* The notebook's values.
batchsize == 128
epoch == 10
TrainLen == 60000
TestLen == 10000
ImgSize == 28

\* Bounds of the scaled-down configurations explored beside the notebook's.
MaxTrain == 3
MaxTest == 3
MaxEpoch == 3

VARIABLES
    train_iter,       \* SerialIterator(train, batchsize)
    test_iter,        \* SerialIterator(test, batchsize, repeat=False, shuffle=False)
    slot_of,          \* train_iter._order, inverted: slot_of[s] is the position of
                      \* training sample s in the current permutation, for the
                      \* samples whose identity the model follows
    stop_trigger,     \* Trainer's stop trigger, (epoch, 'epoch')
    snapshot_trigger, \* the trigger E.snapshot() is registered with
    params,           \* version of the weight and bias tensors of the model
    iteration,        \* updater.iteration
    pc,               \* position in Trainer.run: loop, ext, eval, done, failed
    ext_i,            \* index of the extension to call next, in invocation order
    observation,      \* trainer.observation: the keys reported this iteration
    fwd,              \* stages of the latest LeNet5.__call__, with their shapes
    eval_it,          \* the Evaluator's copy of test_iter during a pass
    eval_seen,        \* test samples the running evaluation pass has visited
    evals,            \* history: updater.epoch at each completed evaluation pass
    graph_dumps,      \* history: iteration at each dump of the graph
    summary,          \* LogReport: number of observations accumulated
    log,              \* LogReport.log
    plots,            \* PlotReport: number of times each file was written
    log_len,          \* PrintReport._log_len
    printed,          \* history: the epoch column of the rows printed
    snapshots,        \* history: updater.epoch at each snapshot
    consumed          \* history: times each followed training sample was drawn

vars == <<train_iter, test_iter, slot_of, stop_trigger, snapshot_trigger, params,
          iteration, pc, ext_i, observation, fwd, eval_it, eval_seen, evals,
          graph_dumps, summary, log, plots, log_len, printed, snapshots, consumed>>

\* ---------------------------------------------------------------- shapes
ShapeError == "shape_error"

RECURSIVE Prod(_)
Prod(s) == IF s = <<>> THEN 1 ELSE Head(s) * Prod(Tail(s))

\* chainer.utils.conv.get_conv_outsize
ConvOutSize(size, k, s, p, cover_all) ==
    IF cover_all
    THEN (size + p * 2 - k + s - 1) \div s + 1
    ELSE (size + p * 2 - k) \div s + 1

\* L.Convolution2D(in_channels, out_channels, ksize, pad=pad), stride 1
Convolution2D(in_channels, out_channels, ksize, pad, x) ==
    IF x = ShapeError THEN ShapeError
    ELSE IF Len(x) # 4 \/ x[2] # in_channels THEN ShapeError
    ELSE LET oh == ConvOutSize(x[3], ksize, 1, pad, FALSE)
             ow == ConvOutSize(x[4], ksize, 1, pad, FALSE)
         IN  IF oh < 1 \/ ow < 1 THEN ShapeError
             ELSE <<x[1], out_channels, oh, ow>>

\* L.Linear(in_size, out_size): the input is flattened to (batch, -1)
Linear(in_size, out_size, x) ==
    IF x = ShapeError THEN ShapeError
    ELSE IF Len(x) < 2 \/ Prod(Tail(x)) # in_size THEN ShapeError
    ELSE <<x[1], out_size>>

\* F.max_pooling_2d(h, ksize): stride = ksize, pad = 0, cover_all = True
max_pooling_2d(x, ksize) ==
    IF x = ShapeError THEN ShapeError
    ELSE IF Len(x) # 4 THEN ShapeError
    ELSE <<x[1], x[2], ConvOutSize(x[3], ksize, ksize, 0, TRUE),
                       ConvOutSize(x[4], ksize, ksize, 0, TRUE)>>

\* F.tanh is elementwise
tanh(x) == x

\* faulty variant: conv1 without pad=2
conv1_nopad(x) == Convolution2D(1, 6, 5, 0, x)
conv1(x) == Convolution2D(1, 6, 5, 2, x)
conv2(x) == Convolution2D(6, 16, 5, 0, x)
fc1(x) == Linear(400, 120, x)
fc2(x) == Linear(120, 84, x)
\* faulty variant: fc3 sized like fc2
fc3_84(x) == Linear(84, 84, x)
fc3(x) == Linear(84, 10, x)

Stage(name, in, out) == [stage |-> name, in |-> in, out |-> out]

\* LeNet5.__call__: every stage applied, with the shape it received and produced
LeNet5_call(x) ==
    LET c1 == conv1(x)
        t1 == tanh(c1)
        p1 == max_pooling_2d(t1, 2)
        c2 == conv2(p1)
        t2 == tanh(c2)
        p2 == max_pooling_2d(t2, 2)
        l1 == fc1(p2)
        t3 == tanh(l1)
        l2 == fc2(t3)
        t4 == tanh(l2)
        l3 == fc3(t4)
    IN  << Stage("conv1", x, c1), Stage("tanh", c1, t1),
           Stage("max_pooling_2d", t1, p1),
           Stage("conv2", p1, c2), Stage("tanh", c2, t2),
           Stage("max_pooling_2d", t2, p2),
           Stage("fc1", p2, l1), Stage("tanh", l1, t3),
           Stage("fc2", t3, l2), Stage("tanh", l2, t4),
           Stage("fc3", t4, l3) >>

Output(f) == f[Len(f)].out

\* a mini batch of n images of get_mnist(ndim=3)
BatchShape(n) == <<n, 1, ImgSize, ImgSize>>

\* ---------------------------------------------------------------- iterators
Min(a, b) == IF a < b THEN a ELSE b

\* chainer.iterators.SerialIterator.__init__
SerialIterator(n, batch_size, repeat, shuffle) ==
    [n |-> n, batch_size |-> batch_size, repeat |-> repeat, shuffle |-> shuffle,
     current_position |-> 0, epoch |-> 0, is_new_epoch |-> FALSE]

\* SerialIterator.__next__ raises StopIteration
IterStops(it) == ~it.repeat /\ it.epoch > 0

IterEnd(it) == it.current_position + it.batch_size

\* i_end >= N: the batch reaches the end of the dataset
IterWraps(it) == IterEnd(it) >= it.n

\* positions of the order that dataset[i:i_end] / _order[i:i_end] takes
IterSlots(it) == it.current_position .. (Min(IterEnd(it), it.n) - 1)

\* faulty variant: the batch that reaches the end of the dataset is not filled up
IterRest_none(it) == 0

\* number of samples taken from the start of the next pass: dataset[:rest]
IterRest(it) ==
    IF IterWraps(it) /\ it.repeat THEN Min(IterEnd(it) - it.n, it.n) ELSE 0

\* len(batch)
BatchLen(it) == Cardinality(IterSlots(it)) + IterRest(it)

\* faulty variant: the next pass starts at position 0, the rest is forgotten
IterAdvance_reset(it) ==
    IF IterWraps(it)
    THEN [it EXCEPT !.current_position = IF it.repeat THEN 0 ELSE it.n,
                    !.epoch = it.epoch + 1,
                    !.is_new_epoch = TRUE]
    ELSE [it EXCEPT !.current_position = IterEnd(it),
                    !.is_new_epoch = FALSE]

\* the iterator after __next__
IterAdvance(it) ==
    IF IterWraps(it)
    THEN [it EXCEPT !.current_position = IF it.repeat THEN IterEnd(it) - it.n
                                         ELSE it.n,
                    !.epoch = it.epoch + 1,
                    !.is_new_epoch = TRUE]
    ELSE [it EXCEPT !.current_position = IterEnd(it),
                    !.is_new_epoch = FALSE]

\* numpy.random.permutation / numpy.random.shuffle: any order of the dataset,
\* seen from the samples the model follows
Orders(followed, n) ==
    {f \in [followed -> 0 .. (n - 1)] :
        \A a, b \in followed : a # b => f[a] # f[b]}

\* ---------------------------------------------------------------- triggers
\* chainer.training.trigger.IntervalTrigger.__call__ on the updater's state;
\* "first_iteration" is the trigger dump_graph defines for itself
IntervalTrigger(t) ==
    CASE t.unit = "epoch" ->
            train_iter.is_new_epoch /\ train_iter.epoch % t.period = 0
      [] t.unit = "iteration" -> iteration % t.period = 0
      [] t.unit = "first_iteration" -> iteration = 1

EveryEpoch == [period |-> 1, unit |-> "epoch"]
EveryIteration == [period |-> 1, unit |-> "iteration"]

\* trainer.extend(...) calls, in the order the notebook makes them, with the
\* priority of each extension (PRIORITY_WRITER 300, PRIORITY_READER 100,
\* snapshot -100)
Extensions ==
    << [name |-> "Evaluator", priority |-> 300],
       [name |-> "dump_graph", priority |-> 100],
       [name |-> "snapshot", priority |-> -100],
       [name |-> "LogReport", priority |-> 100],
       [name |-> "PlotReport_loss", priority |-> 100],
       [name |-> "PlotReport_accuracy", priority |-> 100],
       [name |-> "PrintReport", priority |-> 100] >>

\* the trigger each extension is called under
TriggerOf(name) ==
    CASE name = "Evaluator" -> EveryEpoch
      [] name = "dump_graph" -> [period |-> 1, unit |-> "first_iteration"]
      [] name = "snapshot" -> snapshot_trigger
      [] OTHER -> EveryIteration

\* Trainer.run: extensions sorted by priority, highest first, ties in the
\* order of registration
RECURSIVE InsertByPriority(_, _)
InsertByPriority(e, sorted) ==
    IF sorted = <<>> THEN <<e>>
    ELSE IF Head(sorted).priority >= e.priority
         THEN <<Head(sorted)>> \o InsertByPriority(e, Tail(sorted))
         ELSE <<e>> \o sorted

RECURSIVE SortByPriority(_)
SortByPriority(exts) ==
    IF exts = <<>> THEN <<>>
    ELSE InsertByPriority(exts[Len(exts)], SortByPriority(SubSeq(exts, 1, Len(exts) - 1)))

InvocationOrder == SortByPriority(Extensions)

\* ---------------------------------------------------------------- construction
\* cells 2-5 of the notebook, for a training split of n_train samples, a test
\* split of n_test, batch size b and e epochs; followed is the set of training
\* samples whose identity is tracked through the shuffles
Construct(n_train, n_test, b, e, followed) ==
    /\ train_iter = SerialIterator(n_train, b, TRUE, TRUE)
    /\ test_iter = SerialIterator(n_test, b, FALSE, FALSE)
    /\ slot_of \in Orders(followed, n_train)
    /\ stop_trigger = [period |-> e, unit |-> "epoch"]
    /\ snapshot_trigger = [period |-> e, unit |-> "epoch"]
    /\ params = 0
    /\ iteration = 0
    /\ pc = "loop"
    /\ ext_i = 1
    /\ observation = {}
    /\ fwd = <<>>
    /\ eval_it = test_iter
    /\ eval_seen = <<>>
    /\ evals = <<>>
    /\ graph_dumps = <<>>
    /\ summary = 0
    /\ log = <<>>
    /\ plots = [f \in {"loss.png", "accuracy.png"} |-> 0]
    /\ log_len = 0
    /\ printed = <<>>
    /\ snapshots = <<>>
    /\ consumed = [s \in followed |-> 0]

\* the notebook as written: MNIST, batchsize 128, 10 epochs
InitNotebook == Construct(TrainLen, TestLen, batchsize, epoch, {})

\* the same program on small splits, every training sample followed
InitSmall ==
    \E n_train \in 1 .. MaxTrain, n_test \in 1 .. MaxTest, e \in 1 .. MaxEpoch :
        \E b \in 1 .. n_train :
            Construct(n_train, n_test, b, e, 0 .. (n_train - 1))

Init == InitNotebook \/ InitSmall

\* ---------------------------------------------------------------- Trainer.run
\* faulty variant: the stop trigger counts iterations, (epoch, 'iteration')
StopTrigger_iteration == iteration % stop_trigger.period = 0

\* while not stop_trigger(trainer)
StopTrigger == IntervalTrigger(stop_trigger)

\* the for loop over the extensions moves to the next one; after the last,
\* control returns to the head of the while loop
NextExtension ==
    IF ext_i = Len(InvocationOrder)
    THEN pc' = "loop" /\ ext_i' = 1
    ELSE pc' = "ext" /\ ext_i' = ext_i + 1

\* the extension of this name is the one the for loop is at
AtExtension(name) == pc = "ext" /\ InvocationOrder[ext_i].name = name

\* entry.trigger(trainer)
Triggered(name) == IntervalTrigger(TriggerOf(name))

\* optimizer.update(loss_func, *in_arrays), Adam: the one write to the parameters
OptimizerUpdate(p) == p + 1

\* faulty variant: the evaluation runs the optimizer too
EvalParams_trains(p) == p + 1

\* the Evaluator's forward passes leave the parameters alone
EvalParams(p) == p

\* faulty variant: evaluate() iterates the registered iterator itself
IteratorAfterPass_alias(registered, used) == used

\* evaluate() iterates a copy: the registered iterator is as it was
IteratorAfterPass(registered, used) == registered

\* updater.update(): StandardUpdater.update_core draws the next batch of
\* train_iter, runs the classifier forward (LeNet5.__call__, loss, accuracy),
\* backward, and the optimizer's update; then iteration += 1.  A shape the
\* framework rejects raises out of trainer.run.
Update ==
    /\ pc = "loop"
    /\ ~StopTrigger
    /\ LET it == train_iter
           rest == IterRest(it)
           f == LeNet5_call(BatchShape(BatchLen(it)))
       IN  /\ train_iter' = IterAdvance(it)
           /\ IF it.shuffle /\ IterWraps(it) /\ it.repeat
              THEN slot_of' \in Orders(DOMAIN slot_of, it.n)
              ELSE slot_of' = slot_of
           /\ consumed' = [s \in DOMAIN consumed |->
                  consumed[s] + (IF slot_of[s] \in IterSlots(it) THEN 1 ELSE 0)
                              + (IF slot_of'[s] < rest THEN 1 ELSE 0)]
           /\ fwd' = f
           /\ IF Output(f) = ShapeError
              THEN /\ pc' = "failed"
                   /\ UNCHANGED <<params, iteration, observation, ext_i>>
              ELSE /\ params' = OptimizerUpdate(params)
                   /\ iteration' = iteration + 1
                   /\ observation' = {"main/loss", "main/accuracy"}
                   /\ pc' = "ext"
                   /\ ext_i' = 1
    /\ UNCHANGED <<test_iter, stop_trigger, snapshot_trigger, eval_it, eval_seen,
                   evals, graph_dumps, summary, log, plots, log_len, printed,
                   snapshots>>

\* E.Evaluator(test_iter, model).__call__, first part: evaluate() copies the
\* iterator (it = copy.copy(iterator)) and starts a pass over the copy
Evaluator ==
    /\ AtExtension("Evaluator")
    /\ IF Triggered("Evaluator")
       THEN /\ eval_it' = test_iter
            /\ eval_seen' = <<>>
            /\ pc' = "eval"
            /\ ext_i' = ext_i
       ELSE /\ NextExtension
            /\ UNCHANGED <<eval_it, eval_seen>>
    /\ UNCHANGED <<train_iter, test_iter, slot_of, stop_trigger, snapshot_trigger,
                   params, iteration, observation, fwd, evals, graph_dumps,
                   summary, log, plots, log_len, printed, snapshots, consumed>>

\* dataset[i:i_end] of an iterator that does not shuffle, in order
Slice(lo, hi) == [k \in 1 .. (hi - lo + 1) |-> lo + k - 1]

\* one turn of "for batch in it": the batch goes forward through the model
EvaluatorBatch ==
    /\ pc = "eval"
    /\ ~IterStops(eval_it)
    /\ LET f == LeNet5_call(BatchShape(BatchLen(eval_it)))
       IN  /\ fwd' = f
           /\ pc' = IF Output(f) = ShapeError THEN "failed" ELSE "eval"
    /\ eval_seen' = eval_seen \o Slice(eval_it.current_position,
                                       Min(IterEnd(eval_it), eval_it.n) - 1)
    /\ eval_it' = IterAdvance(eval_it)
    /\ params' = EvalParams(params)
    /\ UNCHANGED <<train_iter, test_iter, slot_of, stop_trigger, snapshot_trigger,
                   iteration, ext_i, observation, evals, graph_dumps, summary,
                   log, plots, log_len, printed, snapshots, consumed>>

\* the pass ends on StopIteration; the means are reported under validation/
EvaluatorReport ==
    /\ pc = "eval"
    /\ IterStops(eval_it)
    /\ observation' = observation \cup {"validation/main/loss",
                                        "validation/main/accuracy"}
    /\ evals' = Append(evals, train_iter.epoch)
    /\ eval_seen' = <<>>
    /\ test_iter' = IteratorAfterPass(test_iter, eval_it)
    /\ NextExtension
    /\ UNCHANGED <<train_iter, slot_of, stop_trigger, snapshot_trigger,
                   params, iteration, fwd, eval_it, graph_dumps, summary, log,
                   plots, log_len, printed, snapshots, consumed>>

\* E.dump_graph('main/loss')
DumpGraph ==
    /\ AtExtension("dump_graph")
    /\ graph_dumps' = IF Triggered("dump_graph")
                      THEN Append(graph_dumps, iteration) ELSE graph_dumps
    /\ NextExtension
    /\ UNCHANGED <<train_iter, test_iter, slot_of, stop_trigger, snapshot_trigger,
                   params, iteration, observation, fwd, eval_it, eval_seen, evals,
                   summary, log, plots, log_len, printed, snapshots, consumed>>

\* faulty variant: the reports are made every iteration
ReportTrigger_iteration == IntervalTrigger(EveryIteration)

\* the trigger LogReport and PlotReport keep inside: trigger=(1, 'epoch')
ReportTrigger == IntervalTrigger(EveryEpoch)

\* E.LogReport().__call__: add the observation to the summary; on its own
\* trigger append the means, epoch and iteration to the log and reset
LogReport ==
    /\ AtExtension("LogReport")
    /\ IF Triggered("LogReport")
       THEN IF ReportTrigger
            THEN /\ log' = Append(log, [epoch |-> train_iter.epoch,
                                        iteration |-> iteration,
                                        keys |-> observation,
                                        n |-> summary + 1])
                 /\ summary' = 0
            ELSE /\ summary' = summary + 1
                 /\ log' = log
       ELSE UNCHANGED <<summary, log>>
    /\ NextExtension
    /\ UNCHANGED <<train_iter, test_iter, slot_of, stop_trigger, snapshot_trigger,
                   params, iteration, observation, fwd, eval_it, eval_seen, evals,
                   graph_dumps, plots, log_len, printed, snapshots, consumed>>

\* E.PlotReport([...], 'epoch', file_name=f).__call__
PlotReport(name, f) ==
    /\ AtExtension(name)
    /\ plots' = IF Triggered(name) /\ ReportTrigger
                THEN [plots EXCEPT ![f] = @ + 1] ELSE plots
    /\ NextExtension
    /\ UNCHANGED <<train_iter, test_iter, slot_of, stop_trigger, snapshot_trigger,
                   params, iteration, observation, fwd, eval_it, eval_seen, evals,
                   graph_dumps, summary, log, log_len, printed, snapshots, consumed>>

PlotReportLoss == PlotReport("PlotReport_loss", "loss.png")
PlotReportAccuracy == PlotReport("PlotReport_accuracy", "accuracy.png")

\* E.PrintReport([...]).__call__: print the entries of LogReport's log that
\* were not printed yet
PrintReport ==
    /\ AtExtension("PrintReport")
    /\ IF Triggered("PrintReport")
       THEN /\ printed' = printed \o
                  [k \in 1 .. (Len(log) - log_len) |-> log[log_len + k].epoch]
            /\ log_len' = Len(log)
       ELSE UNCHANGED <<printed, log_len>>
    /\ NextExtension
    /\ UNCHANGED <<train_iter, test_iter, slot_of, stop_trigger, snapshot_trigger,
                   params, iteration, observation, fwd, eval_it, eval_seen, evals,
                   graph_dumps, summary, log, plots, snapshots, consumed>>

\* E.snapshot(), registered with trigger=(epoch, 'epoch')
Snapshot ==
    /\ AtExtension("snapshot")
    /\ snapshots' = IF Triggered("snapshot")
                    THEN Append(snapshots, train_iter.epoch) ELSE snapshots
    /\ NextExtension
    /\ UNCHANGED <<train_iter, test_iter, slot_of, stop_trigger, snapshot_trigger,
                   params, iteration, observation, fwd, eval_it, eval_seen, evals,
                   graph_dumps, summary, log, plots, log_len, printed, consumed>>

\* the while loop ends: trainer.run() returns
Stop ==
    /\ pc = "loop"
    /\ StopTrigger
    /\ pc' = "done"
    /\ UNCHANGED <<train_iter, test_iter, slot_of, stop_trigger, snapshot_trigger,
                   params, iteration, ext_i, observation, fwd, eval_it, eval_seen,
                   evals, graph_dumps, summary, log, plots, log_len, printed,
                   snapshots, consumed>>

Next ==
    \/ Update
    \/ Evaluator
    \/ EvaluatorBatch
    \/ EvaluatorReport
    \/ DumpGraph
    \/ LogReport
    \/ PlotReportLoss
    \/ PlotReportAccuracy
    \/ PrintReport
    \/ Snapshot
    \/ Stop

Spec == Init /\ [][Next]_vars

\* ---------------------------------------------------------------- properties
\* the run is the notebook's own: MNIST, batchsize 128, 10 epochs
IsNotebook ==
    /\ train_iter.n = TrainLen
    /\ test_iter.n = TestLen
    /\ train_iter.batch_size = batchsize
    /\ stop_trigger.period = epoch

CeilDiv(a, b) == (a + b - 1) \div b

\* the epochs 1, 2, ..., n in order
Epochs(n) == [e \in 1 .. n |-> e]

\* the optimizer step has just been taken: the for loop over the extensions
\* is at its first entry, and fwd is the forward pass of the training batch
JustUpdated == pc = "ext" /\ ext_i = 1

\* C1: whenever LeNet5.__call__ has been applied, its input was a batch
\* (B, 1, 28, 28) with B >= 1 and its output has shape (B, 10).
C1_OutputShape ==
    fwd # <<>> =>
        LET B == fwd[1].in[1]
        IN  /\ B >= 1
            /\ fwd[1].in = <<B, 1, 28, 28>>
            /\ Output(fwd) = <<B, 10>>

\* C1 witness: the forward pass of the last, short batch of the MNIST test
\* split (10000 = 78 * 128 + 16) gave 16 rows of 10 logits.
C1_Witness ==
    /\ IsNotebook
    /\ pc = "eval"
    /\ fwd # <<>>
    /\ fwd[1].in[1] = 16
    /\ Output(fwd) = <<16, 10>>

\* C2: the stages of a forward pass are conv1, tanh, max-pool, conv2, tanh,
\* max-pool, fc1, tanh, fc2, tanh, fc3 in this order; each stage receives the
\* shape the one before produced, in the size it is declared with; the
\* spatial sizes are 28 (what a kernel-5 convolution without padding makes of
\* a 32x32 input), 14, 10, 5, the feature counts 400, 120, 84, 10; no stage
\* is handed a shape it rejects.
C2_StageShapes ==
    fwd # <<>> =>
        LET B == fwd[1].in[1]
        IN  /\ [i \in 1 .. Len(fwd) |-> fwd[i].stage] =
                   << "conv1", "tanh", "max_pooling_2d", "conv2", "tanh",
                      "max_pooling_2d", "fc1", "tanh", "fc2", "tanh", "fc3" >>
            /\ \A i \in 1 .. Len(fwd) : fwd[i].out # ShapeError
            /\ \A i \in 1 .. (Len(fwd) - 1) : fwd[i + 1].in = fwd[i].out
            /\ fwd[1].in[2] = 1
            /\ fwd[1].out = <<B, 6, 28, 28>>
            /\ fwd[1].out[3] = ConvOutSize(32, 5, 1, 0, FALSE)
            /\ fwd[3].out = <<B, 6, 14, 14>>
            /\ fwd[4].out = <<B, 16, 10, 10>>
            /\ fwd[6].out = <<B, 16, 5, 5>>
            /\ Prod(Tail(fwd[7].in)) = 400
            /\ fwd[7].out = <<B, 120>>
            /\ fwd[9].out = <<B, 84>>
            /\ fwd[11].out = <<B, 10>>

\* C2 witness: a training batch of the notebook's run went through all eleven
\* stages and fc1 received 16 x 5 x 5 features.
C2_Witness ==
    /\ IsNotebook
    /\ JustUpdated
    /\ Len(fwd) = 11
    /\ fwd[7].in = <<128, 16, 5, 5>>

\* C3: every batch the updater draws from train_iter has exactly batch_size
\* samples (128 in the notebook's run), also the batch that reaches over the
\* end of a pass.
C3_TrainBatchSize ==
    JustUpdated =>
        /\ fwd[1].in[1] = train_iter.batch_size
        /\ IsNotebook => fwd[1].in[1] = 128

\* C3 witness: the batch that ended the first pass over the 60000 samples
\* took its last 32 samples from the next pass, and had 128 samples.
C3_Witness ==
    /\ IsNotebook
    /\ JustUpdated
    /\ train_iter.is_new_epoch
    /\ train_iter.epoch = 1
    /\ train_iter.current_position = 32
    /\ fwd[1].in[1] = 128

\* C4: when an evaluation pass stops, it has visited every test sample once,
\* in dataset order; the registered test_iter is never advanced, so no pass
\* starts on an exhausted iterator; a run has had one pass per epoch when it
\* ends.
C4_EvalPassComplete ==
    /\ test_iter = SerialIterator(test_iter.n, test_iter.batch_size, FALSE, FALSE)
    /\ (pc = "eval" /\ IterStops(eval_it)) =>
           eval_seen = Slice(0, test_iter.n - 1)
    /\ (pc = "eval" /\ ~IterStops(eval_it)) =>
           eval_seen = Slice(0, eval_it.current_position - 1)
    /\ pc = "done" => Len(evals) = stop_trigger.period

\* C4 witness: the second evaluation pass of the notebook's run stopped after
\* all 10000 test samples.
C4_Witness ==
    /\ IsNotebook
    /\ Len(evals) = 1
    /\ pc = "eval"
    /\ IterStops(eval_it)
    /\ Len(eval_seen) = 10000

\* how far the run has come: the optimizer steps taken, and within the
\* iteration the samples evaluated and the extensions called
StepsPerIteration == test_iter.n + Len(InvocationOrder) + 3

Progress ==
    iteration * StepsPerIteration +
        CASE pc = "ext" /\ ext_i = 1 -> 1
          [] pc = "eval" -> 2 + Len(eval_seen)
          [] pc = "ext" /\ ext_i > 1 -> 2 + test_iter.n + ext_i
          [] pc = "loop" -> StepsPerIteration
          [] pc = "done" -> StepsPerIteration + 1
          [] OTHER -> 0

\* the guard of some action of the run holds: the while loop either goes on
\* or ends, a pass either takes a batch or reports, and the for loop is at an
\* extension the notebook registered
CanStep ==
    \/ pc \in {"loop", "eval"}
    \/ /\ pc = "ext"
       /\ ext_i \in 1 .. Len(InvocationOrder)
       /\ InvocationOrder[ext_i].name \in
              {"Evaluator", "dump_graph", "snapshot", "LogReport",
               "PlotReport_loss", "PlotReport_accuracy", "PrintReport"}

\* C5: trainer.run() returns: until it has, a step can always be taken, every
\* step brings the run further, and the run cannot go further than the steps
\* of ceil(epochs * N / batch_size) iterations.  When it has returned the
\* epoch counter is the number of epochs asked for (10); it does not return
\* earlier; once that many passes are complete no optimizer update follows.
C5_RunStopsAtEpoch ==
    /\ [](pc # "done" => CanStep)
    /\ [][Progress' > Progress]_vars
    /\ [](Progress <= (CeilDiv(stop_trigger.period * train_iter.n,
                               train_iter.batch_size) + 1) * StepsPerIteration + 1)
    /\ [](pc = "done" => train_iter.epoch = stop_trigger.period)
    /\ [](IsNotebook /\ pc = "done" => train_iter.epoch = 10)
    /\ [](train_iter.epoch < stop_trigger.period => pc # "done")
    /\ [][train_iter.epoch >= stop_trigger.period => params' = params]_vars

\* C5 witness: a run of three epochs over three samples in batches of two
\* has returned, after the five steps that three passes take.
C5_Witness ==
    /\ pc = "done"
    /\ train_iter.n = 3
    /\ train_iter.batch_size = 2
    /\ stop_trigger.period = 3
    /\ train_iter.epoch = 3
    /\ params = 5

\* C6: at the head of the loop after the boundary that ends epoch e, the
\* snapshot of epoch e has been taken, for every e.
C6_SnapshotEachEpoch ==
    (pc \in {"loop", "done"} /\ train_iter.is_new_epoch) =>
        \E i \in 1 .. Len(snapshots) : snapshots[i] = train_iter.epoch

\* C7: a step that changes the parameters is the updater's step.
C7_OnlyOptimizerWrites ==
    [][params' # params => (pc = "loop" /\ pc' = "ext" /\ iteration' = iteration + 1)]_vars

\* C7 witness: an evaluation pass, a graph dump, a log entry, two plots, a
\* printed row and a snapshot have happened, and the parameters are those
\* the optimizer steps left.
C7_Witness ==
    /\ Len(evals) >= 1
    /\ Len(graph_dumps) >= 1
    /\ Len(log) >= 1
    /\ plots["loss.png"] >= 1
    /\ plots["accuracy.png"] >= 1
    /\ Len(printed) >= 1
    /\ Len(snapshots) >= 1
    /\ params = iteration
    /\ params > 0

\* C9: evaluation passes and log entries are made once per epoch, for the
\* epochs 1, 2, ... in order; an evaluation only runs at an epoch boundary;
\* the entry of epoch e is written after the optimizer step that completes
\* pass e, with the evaluation of that boundary in it, before the next step;
\* the printed rows are the epochs 1 .. 10 when the run ends.
C9_OncePerEpoch ==
    /\ evals = Epochs(Len(evals))
    /\ [i \in 1 .. Len(log) |-> log[i].epoch] = Epochs(Len(log))
    /\ printed = Epochs(Len(printed))
    /\ pc = "eval" => train_iter.is_new_epoch
    /\ pc \in {"loop", "done"} =>
           /\ Len(evals) = train_iter.epoch
           /\ Len(log) = train_iter.epoch
           /\ Len(printed) = train_iter.epoch
    /\ \A e \in 1 .. Len(log) :
           /\ log[e].iteration = CeilDiv(e * train_iter.n, train_iter.batch_size)
           /\ "validation/main/accuracy" \in log[e].keys
           /\ "main/accuracy" \in log[e].keys
    /\ pc = "done" => printed = Epochs(stop_trigger.period)
    /\ (IsNotebook /\ pc = "done") => printed = <<1, 2, 3, 4, 5, 6, 7, 8, 9, 10>>

\* C9 witness: in the notebook's run the second evaluation and the second
\* log entry have been made, at iteration 938 = ceil(2 * 60000 / 128), and
\* the second row is printed.
C9_Witness ==
    /\ IsNotebook
    /\ pc = "loop"
    /\ evals = <<1, 2>>
    /\ Len(log) = 2
    /\ log[2].iteration = 938
    /\ printed = <<1, 2>>

\* C10: after k optimizer steps the epoch counter is floor(k * batch_size / N);
\* it never decreases and grows by at most 1 per step; the run takes
\* ceil(epochs * N / batch_size) steps, 4688 in the notebook's run; when the
\* run stops every training sample has been drawn at least epochs times.
C10_EpochCounter ==
    /\ [](train_iter.epoch = (iteration * train_iter.batch_size) \div train_iter.n)
    /\ [][train_iter'.epoch \in {train_iter.epoch, train_iter.epoch + 1}]_vars
    /\ [](pc = "done" =>
             iteration = CeilDiv(stop_trigger.period * train_iter.n,
                                 train_iter.batch_size))
    /\ [](IsNotebook /\ pc = "done" => iteration = 4688)
    /\ [](pc = "done" =>
             \A s \in DOMAIN consumed : consumed[s] >= stop_trigger.period)

\* C10 witness: a run over three samples in batches of two has stopped; the
\* last batch reached into the next pass, so a sample was drawn once more
\* than the number of epochs.
C10_Witness ==
    /\ pc = "done"
    /\ train_iter.n = 3
    /\ train_iter.batch_size = 2
    /\ \E s \in DOMAIN consumed : consumed[s] > stop_trigger.period

====
